---- MODULE Spec2Model ----
(***************************************************************************)
(* Model of contrib/x11/hashblock.h: HashX11, the five-stage chained hash  *)
(* BLAKE-512 -> Groestl-512 -> CubeHash-512 -> SHAvite-512 -> Echo-512,    *)
(* followed by trim256.  One action per statement of HashX11 (lines 31-52) *)
(* so that several invocations can interleave statement by statement.      *)
(* The sph_* primitives are external; they are modelled by a small         *)
(* stand-in hash that follows the init/update/close contract.              *)
(***************************************************************************)
EXTENDS Integers, Sequences, FiniteSets, TLC

\* ------------------------------------------------------------------------
\* Program constants and bounds
\* ------------------------------------------------------------------------
HASH512_SIZE == 64
HASH256_SIZE == 32

\* longest input byte sequence that is enumerated
MaxLen == 1
\* number of bytes a faulty (short-writing) primitive double stores on close
ShortLen == 16

InputBytes == {0, 1}
\* byte values an uninitialised automatic variable may hold
Garbage == {0, 170}
Threads == {"t1", "t2"}
Stages == 1..5

RECURSIVE SeqsUpTo(_)
SeqsUpTo(n) ==
    IF n = 0 THEN {<<>>}
    ELSE LET S == SeqsUpTo(n - 1)
         IN  S \cup {Append(s, b) : s \in {x \in S : Len(x) = n - 1}, b \in InputBytes}

\* the byte ranges [pbegin, pend) a caller may pass
Inputs == SeqsUpTo(MaxLen)

NoDouble == [stage |-> 0, kind |-> "none"]
\* test doubles: one stage's primitive replaced by another function ("alt")
\* or by one that stores fewer than 64 bytes on close ("short")
Doubles == {[stage |-> k, kind |-> kd] : k \in Stages, kd \in {"alt", "short"}}

VARIABLES
    pc,       \* pc[t]: the statement invocation t executes next
    pbegin,   \* pbegin[t]: the bytes of [pbegin, pend) of invocation t
    ctx,      \* ctx[slot][k]: the five primitive contexts (lines 22-26)
    hash,     \* hash[slot][k][i]: unsigned char hash[5][64] (line 29)
    pResult,  \* pResult[t]: the caller's 32-byte output buffer
    ret,      \* ret[t]: value returned by the invocation ("none" before)
    log,      \* log[t]: the calls made so far by invocation t
    pblank,   \* static unsigned char pblank[1] (line 27)
    memo,     \* input and output of one earlier, finished invocation
    double,   \* the test double installed for the primitives
    callers   \* the threads of the program that call HashX11

vars == <<pc, pbegin, ctx, hash, pResult, ret, log, pblank, memo, double, callers>>

\* ------------------------------------------------------------------------
\* The primitives (sph_blake.h ... sph_echo.h): init / update / close
\* ------------------------------------------------------------------------
IV(alg) == 17 * alg

sph_init(alg) == [alg |-> alg, st |-> "ready", h |-> IV(alg), n |-> 0]

Mix(h, b) == (h * 33 + b + 1) % 251

\* the two halves of data[i .. n-1] are absorbed one after the other; the
\* state after the first half is bound as a value before the second starts
RECURSIVE AbsorbFrom(_, _, _, _)
AbsorbFrom(h, data, i, n) ==
    IF i >= n THEN h
    ELSE IF n = i + 1 THEN Mix(h, data[i])
    ELSE LET mid == (i + n) \div 2
         IN  CHOOSE r \in {AbsorbFrom(left, data, mid, n) :
                              left \in {AbsorbFrom(h, data, i, mid)}} : TRUE

\* absorbs bytes data[0 .. len-1], in order
sph_update(c, data, len) ==
    [c EXCEPT !.h = AbsorbFrom(c.h, data, 0, len), !.n = (c.n + len) % 256]

\* the 64-byte digest of a context
sph_digest(c) ==
    [i \in 0..(HASH512_SIZE - 1) |-> (c.h * 7 + c.n * 3 + i * (2 * c.alg + 1)) % 256]

sph_closed(c) == [c EXCEPT !.st = "closed"]

\* a different function in place of a primitive
AltDigest(d) == [i \in DOMAIN d |-> (d[i] + 101) % 256]

\* what the close of stage k stores at dst, given the installed double
StoredDigest(k, c, dst, dbl) ==
    LET d == IF dbl.stage = k /\ dbl.kind = "alt" THEN AltDigest(sph_digest(c))
             ELSE sph_digest(c)
        m == IF dbl.stage = k /\ dbl.kind = "short" THEN ShortLen ELSE HASH512_SIZE
    IN  [i \in DOMAIN dst |-> IF i < m THEN d[i] ELSE dst[i]]

StoredLen(k, dbl) ==
    IF dbl.stage = k /\ dbl.kind = "short" THEN ShortLen ELSE HASH512_SIZE

\* the primitive of algorithm alg as a function from bytes to a digest
Prim(alg, data, len) == sph_digest(sph_update(sph_init(alg), data, len))

AsArray(s) == [i \in 0..(Len(s) - 1) |-> s[i + 1]]

\* ------------------------------------------------------------------------
\* HashX11: the local frame of one invocation and its statements
\* ------------------------------------------------------------------------
\* automatic storage: the contexts and the stage buffers of invocation t
CtxSlot(t) == t
HashSlotStatic(t) == "t1"
HashSlot(t) == t

Ev(op, k, buf, idx, len) == [op |-> op, ctx |-> k, buf |-> buf, idx |-> idx, len |-> len]

\* the locals on entry: nothing is initialised (lines 22-29); g is what the
\* stack happens to hold, and the caller's buffer holds g as well
Fresh(g) ==
    [ctx     |-> [k \in Stages |-> [alg |-> k, st |-> "raw", h |-> g, n |-> g]],
     hash    |-> [k \in 0..4 |-> [i \in 0..(HASH512_SIZE - 1) |-> g]],
     pResult |-> [i \in 0..(HASH256_SIZE - 1) |-> g],
     ret     |-> "none",
     log     |-> <<>>]

\* the memory a data pointer designates
Deref(F, env, buf, idx) ==
    CASE buf = "pblank" -> env.pblank
      [] buf = "pbegin" -> AsArray(env.input)
      [] OTHER          -> F.hash[idx]

\* line 32: (pbegin == pend ? pblank : &pbegin[0])
BlakeData(env) == IF Len(env.input) = 0 THEN "pblank" ELSE "pbegin"
\* line 32: (pend - pbegin) * sizeof(pbegin[0])
BlakeLenBlank(env) == IF Len(env.input) = 0 THEN 1 ELSE Len(env.input)
BlakeLen(env) == Len(env.input)

\* lines 36, 40, 44, 48: the stage buffer each later stage reads, and how much
GroestlSrc == 0
GroestlLenHalf == HASH256_SIZE
GroestlLen == 64
CubehashSrcPrev == GroestlSrc
CubehashSrc == 1
CubehashLen == 64
ShaviteSrc == 2
ShaviteLen == 64
EchoSrcPrev == ShaviteSrc
EchoSrc == 3
EchoLen == 64
\* line 51: the stage buffer trim256 reads
TrimSrcPrev == EchoSrc
TrimSrc == 4
\* line 52
RetValFalse == "false"
RetVal == "true"

\* lines 13-18
trim256Upper(pn, r) ==
    [i \in DOMAIN r |-> IF i < HASH256_SIZE THEN pn[i + HASH256_SIZE] ELSE r[i]]
trim256(pn, r) ==
    [i \in DOMAIN r |-> IF i < HASH256_SIZE THEN pn[i] ELSE r[i]]

DoInit(F, k) ==
    [F EXCEPT !.ctx[k] = sph_init(k),
              !.log = Append(@, Ev("init", k, "none", 0, 0))]

DoUpdate(F, env, k, buf, idx, len) ==
    [F EXCEPT !.ctx[k] = sph_update(@, Deref(F, env, buf, idx), len),
              !.log = Append(@, Ev("update", k, buf, idx, len))]

DoClose(F, env, k, idx) ==
    [F EXCEPT !.hash[idx] = StoredDigest(k, F.ctx[k], @, env.double),
              !.ctx[k] = sph_closed(@),
              !.log = Append(@, Ev("close", k, "hash", idx, StoredLen(k, env.double)))]

Line31NoInit(F, env) == F
Line31(F, env) == DoInit(F, 1)
Line32(F, env) == DoUpdate(F, env, 1, BlakeData(env), 0, BlakeLen(env))
Line33(F, env) == DoClose(F, env, 1, 0)
Line35(F, env) == DoInit(F, 2)
Line36(F, env) == DoUpdate(F, env, 2, "hash", GroestlSrc, GroestlLen)
Line37(F, env) == DoClose(F, env, 2, 1)
Line39(F, env) == DoInit(F, 3)
Line40(F, env) == DoUpdate(F, env, 3, "hash", CubehashSrc, CubehashLen)
Line41(F, env) == DoClose(F, env, 3, 2)
Line43(F, env) == DoInit(F, 4)
Line44(F, env) == DoUpdate(F, env, 4, "hash", ShaviteSrc, ShaviteLen)
Line45(F, env) == DoClose(F, env, 4, 3)
Line47NoInit(F, env) == F
Line47(F, env) == DoInit(F, 5)
Line48(F, env) == DoUpdate(F, env, 5, "hash", EchoSrc, EchoLen)
Line49(F, env) == DoClose(F, env, 5, 4)
Line51(F, env) ==
    [F EXCEPT !.pResult = trim256(F.hash[TrimSrc], @),
              !.log = Append(@, Ev("trim", 0, "hash", TrimSrc, HASH256_SIZE))]
Line52(F, env) ==
    [F EXCEPT !.ret = RetVal,
              !.log = Append(@, Ev("return", 0, "none", 0, 0))]

\* one whole invocation, alone, from locals holding g
RunFrom(F, env) ==
    Line52(Line51(Line49(Line48(Line47(Line45(Line44(Line43(Line41(Line40(
    Line39(Line37(Line36(Line35(Line33(Line32(Line31(F, env), env), env), env),
    env), env), env), env), env), env), env), env), env), env), env), env), env)

Blank == [i \in {0} |-> 0]

RunAlone(x) ==
    RunFrom(Fresh(0), [input |-> x, pblank |-> Blank, double |-> NoDouble]).pResult

\* ------------------------------------------------------------------------
\* State machine
\* ------------------------------------------------------------------------
Env(t) == [input |-> pbegin[t], pblank |-> pblank, double |-> double]

Load(t) ==
    [ctx |-> ctx[CtxSlot(t)], hash |-> hash[HashSlot(t)],
     pResult |-> pResult[t], ret |-> ret[t], log |-> log[t]]

Store(t, F) ==
    /\ ctx' = [ctx EXCEPT ![CtxSlot(t)] = F.ctx]
    /\ hash' = [hash EXCEPT ![HashSlot(t)] = F.hash]
    /\ pResult' = [pResult EXCEPT ![t] = F.pResult]
    /\ ret' = [ret EXCEPT ![t] = F.ret]
    /\ log' = [log EXCEPT ![t] = F.log]

\* invocation t is about to execute the statement at "from"
At(t, from) == pc[t] = from

\* invocation t has executed a statement that left its locals as F and
\* continues at "to"
Goto(t, to, F) ==
    /\ pc' = [pc EXCEPT ![t] = to]
    /\ Store(t, F)
    /\ UNCHANGED <<pbegin, pblank, memo, double, callers>>

InitCommon ==
    /\ pc = [t \in Threads |-> "idle"]
    /\ pbegin = [t \in Threads |-> <<>>]
    /\ ctx = [t \in Threads |-> Fresh(0).ctx]
    /\ hash = [t \in Threads |-> Fresh(0).hash]
    /\ pResult = [t \in Threads |-> Fresh(0).pResult]
    /\ ret = [t \in Threads |-> "none"]
    /\ log = [t \in Threads |-> <<>>]
    /\ pblank = Blank
    /\ memo = [in |-> <<>>, out |-> <<>>, set |-> FALSE]

\* the program calls HashX11 from one thread, or from all of them at once
Init == InitCommon /\ double = NoDouble /\ callers \in {{"t1"}, Threads}

\* a test double is driven from one thread
InitDouble == InitCommon /\ double \in Doubles /\ callers = {"t1"}

\* a caller enters HashX11 with a byte range and an output buffer; in a
\* sequential run the result of the invocation that just finished may be
\* remembered for comparison with later ones
Call(t) ==
    /\ t \in callers
    /\ pc[t] \in {"idle", "done"}
    /\ \E x \in Inputs, g \in Garbage, keep \in BOOLEAN :
          /\ pbegin' = [pbegin EXCEPT ![t] = x]
          /\ Store(t, Fresh(g))
          /\ memo' = IF keep /\ pc[t] = "done" /\ callers = {t}
                     THEN [in |-> pbegin[t], out |-> pResult[t], set |-> TRUE]
                     ELSE memo
    /\ pc' = [pc EXCEPT ![t] = "L31"]
    /\ UNCHANGED <<pblank, double, callers>>

sph_blake512_init(t)     == At(t, "L31") /\ \E F \in {Line31(Load(t), Env(t))} : Goto(t, "L32", F)
sph_blake512(t)          == At(t, "L32") /\ \E F \in {Line32(Load(t), Env(t))} : Goto(t, "L33", F)
sph_blake512_close(t)    == At(t, "L33") /\ \E F \in {Line33(Load(t), Env(t))} : Goto(t, "L35", F)
sph_groestl512_init(t)   == At(t, "L35") /\ \E F \in {Line35(Load(t), Env(t))} : Goto(t, "L36", F)
sph_groestl512(t)        == At(t, "L36") /\ \E F \in {Line36(Load(t), Env(t))} : Goto(t, "L37", F)
sph_groestl512_close(t)  == At(t, "L37") /\ \E F \in {Line37(Load(t), Env(t))} : Goto(t, "L39", F)
sph_cubehash512_init(t)  == At(t, "L39") /\ \E F \in {Line39(Load(t), Env(t))} : Goto(t, "L40", F)
sph_cubehash512(t)       == At(t, "L40") /\ \E F \in {Line40(Load(t), Env(t))} : Goto(t, "L41", F)
sph_cubehash512_close(t) == At(t, "L41") /\ \E F \in {Line41(Load(t), Env(t))} : Goto(t, "L43", F)
sph_shavite512_init(t)   == At(t, "L43") /\ \E F \in {Line43(Load(t), Env(t))} : Goto(t, "L44", F)
sph_shavite512(t)        == At(t, "L44") /\ \E F \in {Line44(Load(t), Env(t))} : Goto(t, "L45", F)
sph_shavite512_close(t)  == At(t, "L45") /\ \E F \in {Line45(Load(t), Env(t))} : Goto(t, "L47", F)
sph_echo512_init(t)      == At(t, "L47") /\ \E F \in {Line47(Load(t), Env(t))} : Goto(t, "L48", F)
sph_echo512(t)           == At(t, "L48") /\ \E F \in {Line48(Load(t), Env(t))} : Goto(t, "L49", F)
sph_echo512_close(t)     == At(t, "L49") /\ \E F \in {Line49(Load(t), Env(t))} : Goto(t, "L51", F)
Trim(t)                  == At(t, "L51") /\ \E F \in {Line51(Load(t), Env(t))} : Goto(t, "L52", F)
Return(t)                == At(t, "L52") /\ \E F \in {Line52(Load(t), Env(t))} : Goto(t, "done", F)

Run(t) ==
    \/ sph_blake512_init(t)
    \/ sph_blake512(t)
    \/ sph_blake512_close(t)
    \/ sph_groestl512_init(t)
    \/ sph_groestl512(t)
    \/ sph_groestl512_close(t)
    \/ sph_cubehash512_init(t)
    \/ sph_cubehash512(t)
    \/ sph_cubehash512_close(t)
    \/ sph_shavite512_init(t)
    \/ sph_shavite512(t)
    \/ sph_shavite512_close(t)
    \/ sph_echo512_init(t)
    \/ sph_echo512(t)
    \/ sph_echo512_close(t)
    \/ Trim(t)
    \/ Return(t)

Next == \E t \in Threads : Call(t) \/ Run(t)

Spec == Init /\ [][Next]_vars

\* one thread calling HashX11 again and again
InitSolo == InitCommon /\ double = NoDouble /\ callers = {"t1"}

\* the scheduler keeps running a thread that is inside HashX11
FairSpec == InitSolo /\ [][Next]_vars /\ \A t \in Threads : WF_vars(Run(t))

\* the same program with a test double installed for one primitive
SpecDouble == InitDouble /\ [][Next]_vars

InFlight(t) == pc[t] \notin {"idle", "done"}

TypeOK ==
    /\ \A t \in Threads : ret[t] \in {"none", "true", "false"}
    /\ pblank = Blank

\* ------------------------------------------------------------------------
\* Properties
\* ------------------------------------------------------------------------
PcOrder == <<"L31", "L32", "L33", "L35", "L36", "L37", "L39", "L40", "L41",
             "L43", "L44", "L45", "L47", "L48", "L49", "L51", "L52", "done">>

\* how many statements of HashX11 invocation t has executed
Executed(t) ==
    IF pc[t] = "idle" THEN 0
    ELSE (CHOOSE i \in DOMAIN PcOrder : PcOrder[i] = pc[t]) - 1

\* stage k (1..5) of invocation t has been closed
Closed(t, k) == Executed(t) >= 3 * k

\* the digest of stage k for input x, the primitives taken as functions
RECURSIVE Chain(_, _)
Chain(x, k) ==
    IF k = 1 THEN Prim(1, AsArray(x), Len(x))
    ELSE Prim(k, Chain(x, k - 1), HASH512_SIZE)

\* C1: the stages run in the order BLAKE, Groestl, CubeHash, SHAvite, Echo;
\* stage 1 absorbs exactly the input and stage k+1 exactly the 64-byte
\* digest of stage k, so once stage k is closed hash[k-1] is the k-fold
\* composition, and hash[4] is Echo(SHAvite(CubeHash(Groestl(BLAKE(x))))).
C1_ChainComposition ==
    \A t \in Threads : \A k \in Stages :
        Closed(t, k) => hash[t][k - 1] = Chain(pbegin[t], k)

C1_Witness ==
    \E t \in Threads :
        /\ pc[t] = "done"
        /\ Len(pbegin[t]) > 0
        /\ hash[t][4] = Chain(pbegin[t], 5)

\* C2: after HashX11 returns, pResult has 32 bytes and pResult[i] is byte i
\* of hash[4] for every i in 0..31, in the same order; the upper half of
\* hash[4] is not part of the output.
C2_TruncateFirstHalf ==
    \A t \in Threads :
        pc[t] = "done" =>
            /\ DOMAIN pResult[t] = 0..(HASH256_SIZE - 1)
            /\ \A i \in 0..(HASH256_SIZE - 1) : pResult[t][i] = hash[t][4][i]

C2_Witness ==
    \E t \in Threads :
        /\ pc[t] = "done"
        /\ \A i \in 0..(HASH256_SIZE - 1) : pResult[t][i] = hash[t][4][i]
        /\ \E i \in 0..(HASH256_SIZE - 1) : hash[t][4][i + HASH256_SIZE] # hash[t][4][i]

\* C3: HashX11 has no failure path: an invocation never returns false, a
\* finished invocation has written the output and returned true, and every
\* invocation that has been entered, the zero-length one included, finishes.
C3_NoFailurePath ==
    \A t \in Threads :
        /\ [](ret[t] # "false")
        /\ [](pc[t] = "done" =>
                /\ ret[t] = "true"
                /\ \E j \in DOMAIN log[t] : log[t][j].op = "trim")
        /\ (InFlight(t) ~> pc[t] = "done")

C3_Witness ==
    \E t \in Threads :
        pc[t] = "done" /\ Len(pbegin[t]) = 0 /\ ret[t] = "true"

\* C4: HashX11 is deterministic: a finished invocation whose input equals
\* that of an earlier invocation has the earlier invocation's output, and
\* two finished invocations on different threads with equal inputs have
\* equal outputs, whatever the locals held on entry.
C4_Deterministic ==
    \A t \in Threads :
        pc[t] = "done" =>
            /\ (memo.set /\ memo.in = pbegin[t]) => pResult[t] = memo.out
            /\ \A u \in Threads :
                  (pc[u] = "done" /\ pbegin[u] = pbegin[t]) => pResult[u] = pResult[t]

C4_Witness ==
    \E t \in Threads :
        pc[t] = "done" /\ memo.set /\ memo.in = pbegin[t] /\ pResult[t] = memo.out

\* C5: the BLAKE-512 update is given length pend - pbegin: pblank with
\* length 0 for the empty input, pbegin with the input length otherwise,
\* and the context has absorbed exactly that many bytes.
C5_TrueLength ==
    \A t \in Threads :
        Executed(t) >= 2 =>
            /\ log[t][2] = Ev("update", 1,
                              IF Len(pbegin[t]) = 0 THEN "pblank" ELSE "pbegin",
                              0, Len(pbegin[t]))
            /\ ctx[t][1].n = Len(pbegin[t])

C5_Witness ==
    \E t \in Threads :
        /\ Executed(t) >= 2
        /\ Len(pbegin[t]) = 0
        /\ log[t][2].buf = "pblank"
        /\ log[t][2].len = 0
        /\ ctx[t][1].n = 0

\* C6: invocations that run concurrently do not disturb each other: every
\* finished invocation has the output it produces when it runs alone, and
\* pblank, the only object they share, keeps its initial content.
C6_NoInterference ==
    /\ pblank = Blank
    /\ \A t \in Threads : pc[t] = "done" => pResult[t] = RunAlone(pbegin[t])

C6_Witness ==
    /\ callers = Threads
    /\ pc["t1"] = "done"
    /\ pc["t2"] = "L48"
    /\ pbegin["t1"] # pbegin["t2"]
    /\ pResult["t1"] = RunAlone(pbegin["t1"])

\* some stage of invocation t stored a digest of a length other than 64
WrongLength(t) ==
    \E j \in DOMAIN log[t] : log[t][j].op = "close" /\ log[t][j].len # HASH512_SIZE

\* C7 (as stated): when a primitive returns a digest whose length is not 64
\* the pipeline fails fast: no invocation in which that happened writes an
\* output and returns success.
C7_FailFast ==
    \A t \in Threads : ~(WrongLength(t) /\ pc[t] = "done" /\ ret[t] = "true")

\* C7 (amended): HashX11 makes no check of the digest length.  Whatever
\* number of bytes (at most 64) a primitive stored, the next stage absorbs
\* exactly 64 bytes of the stage buffer as it then is, and the invocation
\* goes on to write the output and to return true.
C7_NoLengthCheck ==
    \A t \in Threads :
        /\ \A k \in 2..5 :
              Executed(t) >= 3 * k - 1 =>
                  /\ log[t][3 * k - 1] = Ev("update", k, "hash", k - 2, HASH512_SIZE)
                  /\ ctx[t][k].n = HASH512_SIZE
                  /\ ctx[t][k].h = AbsorbFrom(IV(k), hash[t][k - 2], 0, HASH512_SIZE)
        /\ pc[t] = "done" =>
              /\ ret[t] = "true"
              /\ pResult[t] = [i \in 0..(HASH256_SIZE - 1) |-> hash[t][4][i]]

C7_Witness ==
    \E t \in Threads :
        /\ pc[t] = "done"
        /\ ret[t] = "true"
        /\ double.kind = "short"
        /\ double.stage = 1
        /\ WrongLength(t)
        /\ ctx[t][2].n = HASH512_SIZE

\* the calls of invocation t that store into, and that read from, hash[k]
Writes(t, k) ==
    {j \in DOMAIN log[t] : log[t][j].op = "close" /\ log[t][j].idx = k}
Reads(t, k) ==
    {j \in DOMAIN log[t] :
        /\ log[t][j].op \in {"update", "trim"}
        /\ log[t][j].buf = "hash"
        /\ log[t][j].idx = k}

\* C8: hash[k] is stored once, whole, by the close of stage k+1, and read
\* once, after that store, by the update of stage k+2 (k = 0..3) or by
\* trim256 (k = 4); pResult is written only after all five closes.
C8_WriteOnceReadOnce ==
    \A t \in Threads :
        /\ \A k \in 0..4 :
              /\ Cardinality(Writes(t, k)) <= 1
              /\ Cardinality(Reads(t, k)) <= 1
              /\ \A w \in Writes(t, k) :
                    log[t][w].ctx = k + 1 /\ log[t][w].len = HASH512_SIZE
              /\ \A r \in Reads(t, k) :
                    /\ \E w \in Writes(t, k) : w < r
                    /\ IF k < 4 THEN log[t][r].op = "update" /\ log[t][r].ctx = k + 2
                                ELSE log[t][r].op = "trim"
              /\ pc[t] = "done" =>
                    Cardinality(Writes(t, k)) = 1 /\ Cardinality(Reads(t, k)) = 1
        /\ \A j \in DOMAIN log[t] :
              log[t][j].op = "trim" =>
                  Cardinality({i \in 1..(j - 1) : log[t][i].op = "close"}) = 5
        /\ (\A j \in DOMAIN log[t] : log[t][j].op # "trim") =>
              \E g \in Garbage : pResult[t] = Fresh(g).pResult

C8_Witness ==
    \E t \in Threads :
        /\ pc[t] = "done"
        /\ \A k \in 0..4 : Cardinality(Writes(t, k)) = 1 /\ Cardinality(Reads(t, k)) = 1

\* the calls invocation t has made on context k, in order
CtxOps(t, k) ==
    LET js == {j \in DOMAIN log[t] : log[t][j].ctx = k}
        RECURSIVE Collect(_)
        Collect(j) ==
            IF j > Len(log[t]) THEN <<>>
            ELSE IF j \in js THEN <<log[t][j].op>> \o Collect(j + 1)
            ELSE Collect(j + 1)
    IN  Collect(1)

Lifecycle == <<"init", "update", "close">>

\* C9: within an invocation each context sees init, update, close once and
\* in that order; on entry every context is uninitialised, it holds the
\* state of its own algorithm only, and it is ready exactly between its
\* init and its close.
C9_ContextLifecycle ==
    \A t \in Threads : \A k \in Stages :
        LET ops == CtxOps(t, k)
        IN  /\ Len(ops) <= 3
            /\ ops = SubSeq(Lifecycle, 1, Len(ops))
            /\ pc[t] = "done" => ops = Lifecycle
            /\ ctx[t][k].alg = k
            /\ ctx[t][k].st = CASE Len(ops) = 0 -> "raw"
                                [] Len(ops) = 3 -> "closed"
                                [] OTHER        -> "ready"

C9_Witness ==
    \E t \in Threads :
        /\ memo.set
        /\ pc[t] = "done"
        /\ \A k \in Stages : CtxOps(t, k) = Lifecycle

\* C10: no stage is short-circuited: with any single stage's primitive
\* replaced by a different function, the 32-byte output of a finished
\* invocation differs from the output of the unmodified chain.
C10_StageIsolation ==
    \A t \in Threads :
        (pc[t] = "done" /\ double.kind = "alt") =>
            pResult[t] # RunAlone(pbegin[t])

C10_Witness ==
    \E t \in Threads :
        /\ pc[t] = "done"
        /\ double = [stage |-> 3, kind |-> "alt"]
        /\ pResult[t] # RunAlone(pbegin[t])

====
